---- MODULE Spec2Model ----
(***************************************************************************)
(* Frame-resource ring and dirty-constant propagation of LitColumnsApp,    *)
(* in its two variants ("Assigment #1" and "Lab# 5").                      *)
(*                                                                         *)
(* The state is the application object's fields that the protocol reads    *)
(* and writes (mMaterials, mAllRitems, mFrameResources, the ring cursor,   *)
(* mCurrentFence), the device side (the command queue and the fence's      *)
(* completed value) and the position of the single submitting thread.      *)
(*                                                                         *)
(* Abstractions.  A 4x4 matrix is kept as the pair <<lower, upper>> of one *)
(* entry below and the mirrored entry above the diagonal, which is what a  *)
(* transpose exchanges.  The hand-placed world transform of a render item  *)
(* is a translation by the order in which BuildRenderItems builds it; the  *)
(* tree sprites item keeps the identity the code gives it.  Time           *)
(* (GameTimer) is a tick count.                                            *)
(***************************************************************************)
EXTENDS Integers, Sequences, FiniteSets, TLC

VARIABLES
    variant,                  \* which of the two applications runs
    md3dDevice,               \* D3DApp::md3dDevice: "null" or "device"
    thrown,                   \* a DxException is on its way to WinMain
    pc,                       \* position of the submitting thread
    mMaterials,               \* name -> Material
    mAllRitems,               \* sequence of RenderItem
    objCBIndex,               \* BuildRenderItems' local counter
    row, col,                 \* BuildRenderItems' maze loop position
    mFrameResources,          \* 0..gNumFrameResources-1 -> FrameResource
    mCurrFrameResource,       \* index of the current slot, or NullPtr
    mCurrFrameResourceIndex,
    mCurrentFence,            \* D3DApp::mCurrentFence
    fenceCompleted,           \* mFence->GetCompletedValue()
    cmdQueue,                 \* the device's queue: executions and signals
    mMainPassCB,              \* the host copy of the pass constants
    mCurrBackBuffer,          \* D3DApp::mCurrBackBuffer
    mSwapChainBuffer,         \* resource state of every back buffer
    copyLog,                  \* CopyData calls of the latest Update, in order
    frameLog,                 \* steps of the current frame, in order
    waited,                   \* whether the latest Update blocked on the fence
    submitted,                \* fence values stored by Draw, in order
    executed,                 \* slots given to ExecuteCommandLists, in order
    modLog                    \* the scene modifications so far, in order

vars == <<variant, md3dDevice, thrown, pc, mMaterials, mAllRitems, objCBIndex, row, col,
          mFrameResources, mCurrFrameResource, mCurrFrameResourceIndex,
          mCurrentFence, fenceCompleted, cmdQueue, mMainPassCB,
          mCurrBackBuffer, mSwapChainBuffer, copyLog,
          frameLog, waited, submitted, executed, modLog>>

appVars == <<md3dDevice, thrown>>
buildVars == <<mMaterials, mAllRitems, objCBIndex, row, col>>
deviceVars == <<mCurrentFence, fenceCompleted, cmdQueue>>
swapVars == <<mCurrBackBuffer, mSwapChainBuffer>>
histVars == <<copyLog, frameLog, waited, submitted, executed, modLog>>

----------------------------------------------------------------------------
(* Program constants *)

gNumFrameResources == 3

\* BuildRenderItems: int steps = 6
steps == 6

\* rand() % 5
RandModulus == 5

\* BuildRenderItems: UINT objCBIndex = 12, then 8 iterations of 4 pyramids
PyramidFirstIndex == 12
PyramidIterations == 8

\* BuildRenderItems: objCBIndex = 44, then 2 iterations of 26 wall pieces
WallFirstIndex == 44
WallIterations == 2
WallPiecesPerIteration == 26

(* Bounds of the model *)

\* frames are rendered while mCurrentFence is below this
MaxFence == 5

\* the frame specification builds at most this many random maze walls
MaxMazeWalls == 1

\* scene modifications (markings) in one behaviour
MaxModify == 1


Variants == {"Assigment1", "Lab5"}
NullPtr == -1
Slots == 0 .. gNumFrameResources - 1

----------------------------------------------------------------------------
(* Matrices *)

Identity4x4 == <<0, 0>>
XMMatrixTranslation(x) == <<x, 0>>
XMMatrixTranspose(m) == <<m[2], m[1]>>

\* contents of an upload buffer element that was never written
Unwritten == [unwritten |-> TRUE]

----------------------------------------------------------------------------
(* Scene construction *)

NewMaterial(idx) ==
    [MatCBIndex |-> idx, NumFramesDirty |-> gNumFrameResources,
     MatTransform |-> Identity4x4]

MaterialsAllRegistered(v) ==
    [n \in {"bricks0", "stone0", "tile0", "diamondMat", "diamondMatRed",
            "skullMat"} \cup
           (IF v = "Lab5" THEN {"grassMat", "treeSprites"} ELSE {}) |->
        NewMaterial(CASE n = "bricks0" -> 0
                      [] n = "stone0" -> 1
                      [] n = "tile0" -> 2
                      [] n = "diamondMat" -> 3
                      [] n = "diamondMatRed" -> 4
                      [] n = "skullMat" -> 5
                      [] n = "grassMat" -> 3
                      [] n = "treeSprites" -> 4)]

MaterialsOf(v) ==
    IF v = "Lab5"
    THEN [n \in {"bricks0", "stone0", "tile0", "grassMat", "treeSprites"} |->
            NewMaterial(CASE n = "bricks0" -> 0
                          [] n = "stone0" -> 1
                          [] n = "tile0" -> 2
                          [] n = "grassMat" -> 3
                          [] n = "treeSprites" -> 4)]
    ELSE [n \in {"bricks0", "stone0", "tile0", "diamondMat", "diamondMatRed",
                 "skullMat"} |->
            NewMaterial(CASE n = "bricks0" -> 0
                          [] n = "stone0" -> 1
                          [] n = "tile0" -> 2
                          [] n = "diamondMat" -> 3
                          [] n = "diamondMatRed" -> 4
                          [] n = "skullMat" -> 5)]

\* struct RenderItem with its default member initialisers, as
\* BuildRenderItems sets it up; World stands for the hand-written placement
\* of the item built with this index
NewRitem(idx, mat) ==
    [World |-> XMMatrixTranslation(idx + 1),
     NumFramesDirty |-> gNumFrameResources,
     ObjCBIndex |-> idx,
     Mat |-> mat]

PushRitem(items, idx, mat) == Append(items, NewRitem(idx, mat))

\* the twelve hand-placed items, in push_back order
FixedMats(v) ==
    IF v = "Lab5"
    THEN <<"bricks0", "tile0", "grassMat", "stone0", "stone0", "stone0",
           "stone0", "stone0", "stone0", "tile0", "bricks0", "stone0">>
    ELSE <<"stone0", "stone0", "diamondMat", "diamondMatRed", "diamondMat",
           "bricks0", "skullMat", "bricks0", "diamondMat", "diamondMatRed",
           "tile0", "skullMat">>

LoopMat(v) == IF v = "Lab5" THEN "stone0" ELSE "bricks0"

\* the hand-placed items from the k-th on, with ObjCBIndex k-1, k, ...
PushFixed(items, v, k) ==
    items \o [j \in 1 .. Len(FixedMats(v)) - k + 1 |->
                NewRitem(k + j - 2, FixedMats(v)[k + j - 1])]

\* n render items with ObjCBIndex = first, first+1, ... (objCBIndex++)
PushRun(items, first, n, mat) ==
    items \o [j \in 1 .. n |-> NewRitem(first + j - 1, mat)]

CastleRitems(v) ==
    LET fixed == PushFixed(<<>>, v, 1)
        pyramids == PushRun(fixed, PyramidFirstIndex, PyramidIterations * 4, LoopMat(v))
    IN  PushRun(pyramids, WallFirstIndex,
                WallIterations * WallPiecesPerIteration, LoopMat(v))

\* objCBIndex = 44 + 52
BorderFirstIndex == WallFirstIndex + WallIterations * WallPiecesPerIteration

\* the two border loops: 2 walls per iteration, steps iterations each
BorderRitems(items) == PushRun(items, BorderFirstIndex, 4 * steps, "stone0")

\* the item appended last by Lab# 5, with its literal index
TreeSpritesIndex == 3

FrameResourceFenceOne(passCount, objectCount, materialCount) ==
    [Fence |-> 1,
     PassCB |-> [i \in 0 .. passCount - 1 |-> Unwritten],
     ObjectCB |-> [i \in 0 .. objectCount - 1 |-> Unwritten],
     MaterialCB |-> [i \in 0 .. materialCount - 1 |-> Unwritten]]

\* FrameResource(device, passCount, objectCount, materialCount)
NewFrameResource(passCount, objectCount, materialCount) ==
    [Fence |-> 0,
     PassCB |-> [i \in 0 .. passCount - 1 |-> Unwritten],
     ObjectCB |-> [i \in 0 .. objectCount - 1 |-> Unwritten],
     MaterialCB |-> [i \in 0 .. materialCount - 1 |-> Unwritten]]

\* the back buffers of the swap chain; the property is checked for this
\* number of them and for more
SwapChainBufferCount == 2

\* a swap chain's buffers are created in the PRESENT state
InitialBackBuffers == [b \in 0 .. SwapChainBufferCount - 1 |-> "PRESENT"]

\* CD3DX12_RESOURCE_BARRIER::Transition(resource, before, after)
Transition(b, before, after) ==
    [op |-> "barrier", buffer |-> b, before |-> before, after |-> after]

DrawCommandsNoPresent(b) ==
    <<Transition(b, "PRESENT", "RENDER_TARGET"),
      [op |-> "clear", buffer |-> b],
      [op |-> "draw", buffer |-> b]>>

\* the commands Draw records on the back buffer, in order: the barrier to
\* RENDER_TARGET, ClearRenderTargetView, the draws (OMSetRenderTargets,
\* DrawRenderItems) and the barrier back to PRESENT
DrawCommands(b) ==
    <<Transition(b, "PRESENT", "RENDER_TARGET"),
      [op |-> "clear", buffer |-> b],
      [op |-> "draw", buffer |-> b],
      Transition(b, "RENDER_TARGET", "PRESENT")>>

\* the states of the back buffers after a list of commands: a barrier moves
\* a buffer that is in its before state, clearing and drawing need
\* RENDER_TARGET; anything else is invalid
RECURSIVE Recorded(_, _)
Recorded(states, cmds) ==
    IF cmds = <<>> THEN states
    ELSE LET c == Head(cmds)
         IN  Recorded([states EXCEPT ![c.buffer] =
                          IF c.op = "barrier"
                          THEN IF @ = c.before THEN c.after ELSE "INVALID"
                          ELSE IF @ = "RENDER_TARGET" THEN @ ELSE "INVALID"],
                      Tail(cmds))

NoCopies == [objects |-> <<>>, materials |-> <<>>, pass |-> <<>>]

----------------------------------------------------------------------------
(* Initialize *)

Init ==
    /\ variant \in Variants
    /\ md3dDevice = "null"
    /\ thrown = FALSE
    /\ pc = "Initialize"
    /\ mMaterials = <<>>
    /\ mAllRitems = <<>>
    /\ objCBIndex = 0
    /\ row = 0
    /\ col = 0
    /\ mFrameResources = <<>>
    /\ mCurrFrameResource = NullPtr
    /\ mCurrFrameResourceIndex = 0
    /\ mCurrentFence = 0
    /\ fenceCompleted = 0
    /\ cmdQueue = <<>>
    /\ mMainPassCB = [TotalTime |-> 0]
    /\ mCurrBackBuffer = 0
    /\ mSwapChainBuffer = InitialBackBuffers
    /\ copyLog = NoCopies
    /\ frameLog = <<>>
    /\ waited = FALSE
    /\ submitted = <<>>
    /\ executed = <<>>
    /\ modLog = <<>>

\* D3DApp::Initialize: the window and the device are created, or the call
\* returns false and WinMain returns
D3DAppInitialize ==
    /\ pc = "Initialize"
    /\ \E ok \in BOOLEAN :
          IF ok THEN md3dDevice' = "device" /\ pc' = "BuildMaterials"
                ELSE md3dDevice' = md3dDevice /\ pc' = "Destructor"
    /\ UNCHANGED <<variant, swapVars, thrown, buildVars, mFrameResources,
                   mCurrFrameResource, mCurrFrameResourceIndex, deviceVars,
                   mMainPassCB, histVars>>

BuildMaterials ==
    /\ pc = "BuildMaterials"
    /\ mMaterials' = MaterialsOf(variant)
    /\ pc' = "BuildRenderItems"
    /\ UNCHANGED <<variant, swapVars, appVars, mAllRitems, objCBIndex, row, col, mFrameResources,
                   mCurrFrameResource, mCurrFrameResourceIndex, deviceVars,
                   mMainPassCB, histVars>>

\* BuildRenderItems up to the random maze (Lab# 5) or to its end (Assigment #1)
BuildRenderItems ==
    /\ pc = "BuildRenderItems"
    /\ IF variant = "Lab5"
       THEN /\ mAllRitems' = BorderRitems(CastleRitems(variant))
            /\ objCBIndex' = BorderFirstIndex + 4 * steps
            /\ pc' = "MazeLoop"
       ELSE /\ mAllRitems' = CastleRitems(variant)
            /\ objCBIndex' = WallFirstIndex + WallIterations * WallPiecesPerIteration
            /\ pc' = "BuildFrameResources"
    /\ row' = 0
    /\ col' = 0
    /\ UNCHANGED <<variant, swapVars, appVars, mMaterials, mFrameResources, mCurrFrameResource,
                   mCurrFrameResourceIndex, deviceVars, mMainPassCB, histVars>>

\* one wall of the maze, when the draw says so (num > 1)
MazeWall(items, idx, num) ==
    IF num > 1 THEN PushRitem(items, idx, "stone0") ELSE items

MazeNextTwice(idx, num) == IF num > 1 THEN idx + 2 ELSE idx

\* objCBIndex++ inside the if (num > 1)
MazeNext(idx, num) == IF num > 1 THEN idx + 1 ELSE idx

\* one iteration of the inner maze loop: two draws of rand() % 5.  A draw
\* that builds a wall is taken only while fewer than cap walls exist.
MazeCell(cap) ==
    /\ pc = "MazeLoop"
    /\ row < steps
    /\ \E num1, num2 \in 0 .. RandModulus - 1 :
          LET items1 == MazeWall(mAllRitems, objCBIndex, num1)
              idx1 == MazeNext(objCBIndex, num1)
              items2 == MazeWall(items1, idx1, num2)
              idx2 == MazeNext(idx1, num2)
          IN  /\ Len(items2) - (BorderFirstIndex + 4 * steps) <= cap
              /\ mAllRitems' = items2
              /\ objCBIndex' = idx2
    /\ IF col + 1 < steps
       THEN /\ col' = col + 1
            /\ row' = row
       ELSE /\ col' = 0
            /\ row' = row + 1
    /\ UNCHANGED <<variant, swapVars, appVars, pc, mMaterials, mFrameResources, mCurrFrameResource,
                   mCurrFrameResourceIndex, deviceVars, mMainPassCB, histVars>>

\* after the maze: objCBIndex++, then the tree sprites item with index 3
BuildRenderItemsEnd ==
    /\ pc = "MazeLoop"
    /\ row = steps
    /\ objCBIndex' = objCBIndex + 1
    /\ mAllRitems' =
          Append(mAllRitems,
                 [World |-> Identity4x4,
                  NumFramesDirty |-> gNumFrameResources,
                  ObjCBIndex |-> TreeSpritesIndex,
                  Mat |-> "treeSprites"])
    /\ pc' = "BuildFrameResources"
    /\ UNCHANGED <<variant, swapVars, appVars, mMaterials, row, col, mFrameResources,
                   mCurrFrameResource, mCurrFrameResourceIndex, deviceVars,
                   mMainPassCB, histVars>>

BuildFrameResources ==
    /\ pc = "BuildFrameResources"
    /\ mFrameResources' =
          [i \in Slots |->
              NewFrameResource(1, Len(mAllRitems), Cardinality(DOMAIN mMaterials))]
    /\ pc' = "InitializeFlush"
    /\ UNCHANGED <<variant, swapVars, appVars, buildVars, mCurrFrameResource,
                   mCurrFrameResourceIndex, deviceVars, mMainPassCB, histVars>>

\* D3DApp::FlushCommandQueue: advance the fence, signal it on the queue and
\* block until the device has reached it.  The fence value it leaves behind.
FlushCommandQueue(fence) == fence + 1

\* the end of Initialize: the initialisation commands are executed and the
\* queue is flushed, so the device is idle when the first frame starts
InitializeFinish ==
    /\ pc = "InitializeFlush"
    /\ mCurrentFence' = FlushCommandQueue(mCurrentFence)
    /\ fenceCompleted' = FlushCommandQueue(mCurrentFence)
    /\ cmdQueue' = <<>>
    /\ pc' = "Update"
    /\ UNCHANGED <<variant, swapVars, appVars, buildVars, mFrameResources, mCurrFrameResource,
                   mCurrFrameResourceIndex, mMainPassCB, histVars>>

----------------------------------------------------------------------------
(* Update *)

SameFrameResourceIndex(i) == i

SkipFrameResourceIndex(i) == (i + 2) % gNumFrameResources

ShortRingIndex(i) == (i + 1) % (gNumFrameResources - 1)

\* mCurrFrameResourceIndex = (mCurrFrameResourceIndex + 1) % gNumFrameResources
NextFrameResourceIndex(i) == (i + 1) % gNumFrameResources

MustWaitNever(fence, completed) == FALSE

MustWaitUntilPast(fence, completed) == fence # 0 /\ completed <= fence

\* the test that guards the fence wait
MustWait(fence, completed) == fence # 0 /\ completed < fence

\* the cursor advances, the slot is selected and the fence test is made
UpdateAcquire ==
    /\ pc = "Update"
    /\ mCurrentFence < MaxFence
    /\ mCurrFrameResourceIndex' = NextFrameResourceIndex(mCurrFrameResourceIndex)
    /\ mCurrFrameResource' = mCurrFrameResourceIndex'
    /\ IF MustWait(mFrameResources[mCurrFrameResource'].Fence, fenceCompleted)
       THEN /\ pc' = "UpdateWait"
            /\ waited' = TRUE
            /\ frameLog' = <<"acquire", "wait">>
       ELSE /\ pc' = "UpdateCBs"
            /\ waited' = FALSE
            /\ frameLog' = <<"acquire">>
    /\ UNCHANGED <<variant, swapVars, appVars, buildVars, mFrameResources, deviceVars, mMainPassCB,
                   copyLog, submitted, executed, modLog>>

EventSetAtOnce(fence, completed) == TRUE

EventSetNever(fence, completed) == FALSE

EventSetOneEarly(fence, completed) == completed + 1 >= fence

\* SetEventOnCompletion(fence, eventHandle): the event is set when the
\* fence has reached the value
EventSet(fence, completed) == completed >= fence

\* SetEventOnCompletion(Fence) + WaitForSingleObject(INFINITE): the thread
\* resumes once the event is set
UpdateWait ==
    /\ pc = "UpdateWait"
    /\ EventSet(mFrameResources[mCurrFrameResource].Fence, fenceCompleted)
    /\ pc' = "UpdateCBs"
    /\ UNCHANGED <<variant, swapVars, appVars, buildVars, mFrameResources, mCurrFrameResource,
                   mCurrFrameResourceIndex, deviceVars, mMainPassCB, histVars>>

\* UploadBuffer::CopyData(elementIndex, data); a write past the end of the
\* buffer does not land in it
CopyData(buffer, index, record) ==
    IF index \in DOMAIN buffer THEN [buffer EXCEPT ![index] = record] ELSE buffer

\* ObjectConstants: the transposed world matrix (TexTransform is the
\* identity for every render item of both scenes and is left out)
ObjectConstantsOf(e) == XMMatrixTranspose(e.World)

\* DiffuseAlbedo, FresnelR0 and Roughness are fixed per material and stand
\* as the material's name
MaterialConstantsOf(name, mat) ==
    [Material |-> name, MatTransform |-> XMMatrixTranspose(mat.MatTransform)]

NeedsRefreshAlways(e) == TRUE

\* if(e->NumFramesDirty > 0)
NeedsRefresh(e) == e.NumFramesDirty > 0

\* e->NumFramesDirty--
Refreshed(e) == [e EXCEPT !.NumFramesDirty = @ - 1]

Last(S) == CHOOSE k \in S : \A j \in S : j <= k

\* the loop of UpdateObjectCBs over mAllRitems: it runs in list order, so an
\* element holds what the last dirty item that names it has copied (CopyData)
ObjectCBAfter(cb, items) ==
    LET dirty == {k \in 1 .. Len(items) : NeedsRefresh(items[k])}
    IN  IF dirty = {} THEN cb
        ELSE [i \in DOMAIN cb |->
                LET Writers == {k \in dirty : items[k].ObjCBIndex = i}
                IN  IF Writers = {} THEN cb[i]
                    ELSE CopyData(cb, i,
                                  ObjectConstantsOf(items[Last(Writers)]))[i]]

RitemsReindexed(items) ==
    [k \in 1 .. Len(items) |->
        IF NeedsRefresh(items[k])
        THEN [Refreshed(items[k]) EXCEPT !.ObjCBIndex = k - 1]
        ELSE items[k]]

\* the render items after the loop of UpdateObjectCBs
RitemsAfter(items) ==
    [k \in 1 .. Len(items) |->
        IF NeedsRefresh(items[k]) THEN Refreshed(items[k]) ELSE items[k]]

\* the render items for which UpdateObjectCBs calls CopyData, in order
ObjectCopies(items) ==
    LET all == [k \in 1 .. Len(items) |-> k]
        Made(k) == NeedsRefresh(items[k])
    IN  SelectSeq(all, Made)

\* the loop of UpdateMaterialCBs over mMaterials, an unordered_map: the
\* iteration order is whatever the container gives
RECURSIVE MaterialCBAfter(_, _, _)
MaterialCBAfter(cb, mats, names) ==
    IF names = {} THEN cb
    ELSE LET n == CHOOSE x \in names : TRUE
         IN  MaterialCBAfter(IF NeedsRefresh(mats[n])
                             THEN CopyData(cb, mats[n].MatCBIndex,
                                           MaterialConstantsOf(n, mats[n]))
                             ELSE cb,
                             mats, names \ {n})

MaterialsPerRitem(mats) ==
    [n \in DOMAIN mats |->
        LET users == Cardinality({k \in 1 .. Len(mAllRitems) :
                                     mAllRitems[k].Mat = n})
        IN  IF NeedsRefresh(mats[n])
            THEN [mats[n] EXCEPT !.NumFramesDirty =
                                    IF @ >= users THEN @ - users ELSE 0]
            ELSE mats[n]]

\* the materials after the loop of UpdateMaterialCBs: one visit for every
\* entry of mMaterials
MaterialsAfter(mats) ==
    [n \in DOMAIN mats |->
        IF NeedsRefresh(mats[n]) THEN Refreshed(mats[n]) ELSE mats[n]]

\* the materials for which UpdateMaterialCBs calls CopyData, in the order
\* of the loop
RECURSIVE MaterialCopies(_, _)
MaterialCopies(mats, names) ==
    IF names = {} THEN <<>>
    ELSE LET n == CHOOSE x \in names : TRUE
         IN  (IF NeedsRefresh(mats[n]) THEN <<n>> ELSE <<>>) \o
             MaterialCopies(mats, names \ {n})

\* UpdateMainPassCB: the pass constants change every frame (TotalTime)
MainPassCBAfter(pass) == [pass EXCEPT !.TotalTime = @ + 1]

PassCBSkipped(passCB, pass) == passCB

\* the end of UpdateMainPassCB: CopyData(0, mMainPassCB) on the pass buffer
\* of the current slot, whatever the counters are
PassCBAfter(passCB, pass) == CopyData(passCB, 0, pass)

\* the elements for which UpdateMainPassCB calls CopyData
PassCopies == <<0>>

\* UpdateObjectCBs, UpdateMaterialCBs, UpdateMainPassCB on the current slot
UpdateCBs ==
    /\ pc = "UpdateCBs"
    /\ LET cur == mCurrFrameResource
           fr == mFrameResources[cur]
       IN  /\ mMainPassCB' = MainPassCBAfter(mMainPassCB)
           /\ mFrameResources' =
                 [mFrameResources EXCEPT ![cur] =
                     [fr EXCEPT
                        !.ObjectCB = ObjectCBAfter(fr.ObjectCB, mAllRitems),
                        !.MaterialCB = MaterialCBAfter(fr.MaterialCB, mMaterials,
                                                       DOMAIN mMaterials),
                        !.PassCB = PassCBAfter(fr.PassCB, mMainPassCB')]]
    /\ mAllRitems' = RitemsAfter(mAllRitems)
    /\ mMaterials' = MaterialsAfter(mMaterials)
    /\ copyLog' = [objects |-> ObjectCopies(mAllRitems),
                   materials |-> MaterialCopies(mMaterials, DOMAIN mMaterials),
                   pass |-> PassCopies]
    /\ frameLog' = frameLog \o <<"objectCBs", "materialCBs", "passCB">>
    /\ pc' = "Draw"
    /\ UNCHANGED <<variant, swapVars, appVars, objCBIndex, row, col, mCurrFrameResource,
                   mCurrFrameResourceIndex, deviceVars, waited, submitted, executed,
                   modLog>>

----------------------------------------------------------------------------
(* Draw *)

SameFence(fence) == fence

\* ++mCurrentFence
AdvancedFence(fence) == fence + 1

FenceStoredInAll(frs, cur, fence) ==
    [s \in DOMAIN frs |-> [frs[s] EXCEPT !.Fence = fence]]

\* mCurrFrameResource->Fence = ++mCurrentFence: the store, on the current
\* slot only
FenceStored(frs, cur, fence) == [frs EXCEPT ![cur].Fence = fence]

RecordBeforeReset ==
    <<"record", "resetAllocator", "execute", "present", "storeFence", "signal">>

\* the steps of Draw in statement order
DrawSteps ==
    <<"resetAllocator", "record", "execute", "present", "storeFence", "signal">>

SignalledOld(queue, slot, fence) ==
    queue \o <<[op |-> "execute", slot |-> slot],
               [op |-> "signal", value |-> fence - 1]>>

SignalledFirst(queue, slot, fence) ==
    queue \o <<[op |-> "signal", value |-> fence],
               [op |-> "execute", slot |-> slot]>>

\* ExecuteCommandLists of the frame's list, and later Signal of the fence
\* value, on the same queue
Submitted(queue, slot, fence) ==
    queue \o <<[op |-> "execute", slot |-> slot],
               [op |-> "signal", value |-> fence]>>

DrawWithoutUpdate ==
    /\ pc \in {"Update", "Draw"}
    /\ mCurrFrameResource # NullPtr
    /\ LET cur == mCurrFrameResource
           fence == AdvancedFence(mCurrentFence)
       IN  /\ mCurrentFence' = fence
           /\ mFrameResources' = FenceStored(mFrameResources, cur, fence)
           /\ cmdQueue' = Submitted(cmdQueue, cur, fence)
           /\ submitted' = Append(submitted, fence)
           /\ executed' = Append(executed, cur)
    /\ mSwapChainBuffer' = Recorded(mSwapChainBuffer,
                                    DrawCommands(mCurrBackBuffer))
    /\ mCurrBackBuffer' = (mCurrBackBuffer + 1) % SwapChainBufferCount
    /\ frameLog' = frameLog \o DrawSteps
    /\ pc' = "Update"
    /\ UNCHANGED <<variant, appVars, buildVars, mCurrFrameResource,
                   mCurrFrameResourceIndex, fenceCompleted, mMainPassCB,
                   copyLog, waited, modLog>>

\* the allocator of the current slot is reset, the commands are recorded
\* and executed, the fence is advanced, stored on the slot and signalled
Draw ==
    /\ pc = "Draw"
    /\ mCurrFrameResource # NullPtr
    /\ LET cur == mCurrFrameResource
           fence == AdvancedFence(mCurrentFence)
       IN  /\ mCurrentFence' = fence
           /\ mFrameResources' = FenceStored(mFrameResources, cur, fence)
           /\ cmdQueue' = Submitted(cmdQueue, cur, fence)
           /\ submitted' = Append(submitted, fence)
           /\ executed' = Append(executed, cur)
    /\ mSwapChainBuffer' = Recorded(mSwapChainBuffer,
                                    DrawCommands(mCurrBackBuffer))
    /\ mCurrBackBuffer' = (mCurrBackBuffer + 1) % SwapChainBufferCount
    /\ frameLog' = frameLog \o DrawSteps
    /\ pc' = "Update"
    /\ UNCHANGED <<variant, appVars, buildVars, mCurrFrameResource,
                   mCurrFrameResourceIndex, fenceCompleted, mMainPassCB,
                   copyLog, waited, modLog>>

\* the device takes the next entry of its queue: a command list it has
\* finished executing, or a signal that sets the fence
GpuStep ==
    /\ cmdQueue # <<>>
    /\ fenceCompleted' = IF Head(cmdQueue).op = "signal"
                         THEN Head(cmdQueue).value
                         ELSE fenceCompleted
    /\ cmdQueue' = Tail(cmdQueue)
    /\ UNCHANGED <<variant, swapVars, appVars, pc, buildVars, mFrameResources, mCurrFrameResource,
                   mCurrFrameResourceIndex, mCurrentFence, mMainPassCB,
                   histVars>>

----------------------------------------------------------------------------
(* Scene modifications between frames *)

\* tu += 0.1f * dt, in tenths; if (tu >= 1.0f) tu -= 1.0f
TuWrap == 10

\* AnimateMaterials scrolls mMaterials["water"].  Neither BuildMaterials
\* registers that name; the routine is applied to the moat's material.
WaterMaterial == "tile0"

Scrolled(m) ==
    <<IF m[1] + 1 >= TuWrap THEN m[1] + 1 - TuWrap ELSE m[1] + 1, m[2]>>

\* NumFramesDirty = gNumFrameResources
Marked(n) == gNumFrameResources

\* frames refreshed so far: UpdateMainPassCB runs once in every Update
FramesDone == mMainPassCB.TotalTime

AnimateMaterials ==
    /\ pc = "Update"
    /\ Len(modLog) < MaxModify
    /\ mMaterials' =
          [mMaterials EXCEPT ![WaterMaterial] =
              [@ EXCEPT !.MatTransform = Scrolled(@),
                        !.NumFramesDirty = Marked(@)]]
    /\ modLog' = Append(modLog, [kind |-> "material", id |-> WaterMaterial,
                                 frame |-> FramesDone])
    /\ UNCHANGED <<variant, swapVars, appVars, pc, mAllRitems, objCBIndex, row, col,
                   mFrameResources, mCurrFrameResource, mCurrFrameResourceIndex,
                   deviceVars, mMainPassCB, copyLog, frameLog, waited,
                   submitted, executed>>

\* the render items that are modified at run time: those that use element
\* TreeSpritesIndex of the object constant buffer
Modifiable ==
    {e \in 1 .. Len(mAllRitems) : mAllRitems[e].ObjCBIndex = TreeSpritesIndex}

\* the object data of a render item is modified and NumFramesDirty is set
\* to gNumFrameResources, as the comment on RenderItem asks
ModifyRitem(e) ==
    /\ pc = "Update"
    /\ Len(modLog) < MaxModify
    /\ e \in Modifiable
    /\ mAllRitems' =
          [mAllRitems EXCEPT ![e] =
              [@ EXCEPT !.World = XMMatrixTranslation(0 - (Len(modLog) + 1)),
                        !.NumFramesDirty = Marked(@)]]
    /\ modLog' = Append(modLog, [kind |-> "ritem", id |-> e,
                                 frame |-> FramesDone])
    /\ UNCHANGED <<variant, swapVars, appVars, pc, mMaterials, objCBIndex, row, col,
                   mFrameResources, mCurrFrameResource, mCurrFrameResourceIndex,
                   deviceVars, mMainPassCB, copyLog, frameLog, waited,
                   submitted, executed>>

----------------------------------------------------------------------------
(* Failures, exit and destruction *)

\* ThrowIfFailed in Initialize: the device calls before BuildMaterials, the
\* ones that create the frame resources and the pipeline states, and Close
ThrowInitialize ==
    /\ pc \in {"BuildMaterials", "BuildFrameResources", "InitializeFlush"}
    /\ thrown' = TRUE
    /\ pc' = "Destructor"
    /\ UNCHANGED <<variant, swapVars, md3dDevice, buildVars, mFrameResources,
                   mCurrFrameResource, mCurrFrameResourceIndex, deviceVars,
                   mMainPassCB, histVars>>

ThrowUpdateRetried ==
    /\ pc = "UpdateWait"
    /\ thrown' = TRUE
    /\ UNCHANGED <<variant, swapVars, md3dDevice, pc, buildVars, mFrameResources,
                   mCurrFrameResource, mCurrFrameResourceIndex, deviceVars,
                   mMainPassCB, histVars>>

\* ThrowIfFailed(mFence->SetEventOnCompletion(...)) in Update: the
\* DxException leaves Update and Run and is caught in WinMain, after the
\* destructor of theApp
ThrowUpdate ==
    /\ pc = "UpdateWait"
    /\ thrown' = TRUE
    /\ pc' = "Destructor"
    /\ UNCHANGED <<variant, swapVars, md3dDevice, buildVars, mFrameResources,
                   mCurrFrameResource, mCurrFrameResourceIndex, deviceVars,
                   mMainPassCB, histVars>>

\* ThrowIfFailed in Draw: resetting the allocator or the command list and
\* closing the list fail before anything is submitted; Present fails after
\* ExecuteCommandLists and before the fence is advanced
ThrowDraw ==
    /\ pc = "Draw"
    /\ thrown' = TRUE
    /\ pc' = "Destructor"
    /\ \/ /\ frameLog' = frameLog
          /\ cmdQueue' = cmdQueue
          /\ executed' = executed
          /\ mSwapChainBuffer' = mSwapChainBuffer
       \/ /\ frameLog' = frameLog \o SubSeq(DrawSteps, 1, 3)
          /\ cmdQueue' = Append(cmdQueue, [op |-> "execute",
                                           slot |-> mCurrFrameResource])
          /\ executed' = Append(executed, mCurrFrameResource)
          /\ mSwapChainBuffer' = Recorded(mSwapChainBuffer,
                                          DrawCommands(mCurrBackBuffer))
    /\ UNCHANGED <<variant, mCurrBackBuffer, md3dDevice, buildVars, mFrameResources,
                   mCurrFrameResource, mCurrFrameResourceIndex, mCurrentFence,
                   fenceCompleted, mMainPassCB, copyLog, waited, submitted,
                   modLog>>

\* D3DApp::Run returns when the message loop gets WM_QUIT, between frames
Quit ==
    /\ pc = "Update"
    /\ pc' = "Destructor"
    /\ UNCHANGED <<variant, swapVars, appVars, buildVars, mFrameResources,
                   mCurrFrameResource, mCurrFrameResourceIndex, deviceVars,
                   mMainPassCB, histVars>>

DestructorNoFlush ==
    /\ pc = "Destructor"
    /\ pc' = "Exit"
    /\ UNCHANGED <<variant, swapVars, appVars, buildVars, mFrameResources,
                   mCurrFrameResource, mCurrFrameResourceIndex, deviceVars,
                   mMainPassCB, histVars>>

\* ~LitColumnsApp, run when theApp goes out of scope in WinMain (return or
\* unwinding): if(md3dDevice != nullptr) FlushCommandQueue(), which begins
\* by advancing the fence and signalling it
Destructor ==
    /\ pc = "Destructor"
    /\ IF md3dDevice # "null"
       THEN /\ mCurrentFence' = FlushCommandQueue(mCurrentFence)
            /\ cmdQueue' = Append(cmdQueue, [op |-> "signal",
                                             value |-> mCurrentFence'])
            /\ pc' = "FlushWait"
       ELSE /\ UNCHANGED <<mCurrentFence, cmdQueue>>
            /\ pc' = "Exit"
    /\ UNCHANGED <<variant, swapVars, appVars, buildVars, mFrameResources,
                   mCurrFrameResource, mCurrFrameResourceIndex, fenceCompleted,
                   mMainPassCB, histVars>>

\* FlushCommandQueue returns once the fence has reached mCurrentFence; the
\* frame resources are released and WinMain returns
FlushWait ==
    /\ pc = "FlushWait"
    /\ fenceCompleted >= mCurrentFence
    /\ pc' = "Exit"
    /\ UNCHANGED <<variant, swapVars, appVars, buildVars, mFrameResources,
                   mCurrFrameResource, mCurrFrameResourceIndex, deviceVars,
                   mMainPassCB, histVars>>

----------------------------------------------------------------------------
(* Specifications *)

\* Initialize alone, with every outcome of the random maze
NextBuild ==
    \/ D3DAppInitialize
    \/ BuildMaterials
    \/ BuildRenderItems
    \/ MazeCell(2 * steps * steps)
    \/ BuildRenderItemsEnd
    \/ BuildFrameResources

SpecBuild == Init /\ [][NextBuild]_vars

\* Initialize followed by the frame loop and the device
Next ==
    \/ D3DAppInitialize
    \/ BuildMaterials
    \/ BuildRenderItems
    \/ MazeCell(MaxMazeWalls)
    \/ BuildRenderItemsEnd
    \/ BuildFrameResources
    \/ InitializeFinish
    \/ UpdateAcquire
    \/ UpdateWait
    \/ UpdateCBs
    \/ Draw
    \/ GpuStep
    \/ AnimateMaterials
    \/ \E e \in Modifiable : ModifyRitem(e)
    \/ ThrowInitialize
    \/ ThrowUpdate
    \/ ThrowDraw
    \/ Quit
    \/ Destructor
    \/ FlushWait

Spec == Init /\ [][Next]_vars

\* the steps of the submitting thread that the run loop takes whenever it
\* can: everything but a failure, WM_QUIT and a scene modification
FrameStep ==
    \/ D3DAppInitialize
    \/ BuildMaterials
    \/ BuildRenderItems
    \/ MazeCell(MaxMazeWalls)
    \/ BuildRenderItemsEnd
    \/ BuildFrameResources
    \/ InitializeFinish
    \/ UpdateAcquire
    \/ UpdateWait
    \/ UpdateCBs
    \/ Draw
    \/ Destructor
    \/ FlushWait

\* a run without failure and without scene modification, which may end
\* with WM_QUIT
NextLive == FrameStep \/ GpuStep \/ Quit

\* the thread keeps running and the device keeps retiring what is queued
LiveSpec == Init /\ [][NextLive]_vars /\ WF_vars(FrameStep) /\ WF_vars(GpuStep)

----------------------------------------------------------------------------
(* State functions used by the properties *)

InFrames == {"Update", "UpdateWait", "UpdateCBs", "Draw"}

CurrSlot == mFrameResources[mCurrFrameResource]

\* the frames that were refreshed before the entity was last marked; the
\* construction of the entity is its first mark
MarkedAt(kind, id) ==
    LET S == {i \in 1 .. Len(modLog) : modLog[i].kind = kind /\ modLog[i].id = id}
    IN  IF S = {} THEN 0 ELSE modLog[Last(S)].frame

Max(a, b) == IF a >= b THEN a ELSE b

InFlight == {i \in 1 .. Len(submitted) : submitted[i] > fenceCompleted}

Executing(slot) ==
    \E i \in 1 .. Len(cmdQueue) :
        cmdQueue[i].op = "execute" /\ cmdQueue[i].slot = slot

RefreshStep == pc = "UpdateCBs" /\ pc' = "Draw"

----------------------------------------------------------------------------
(* Properties *)

\* C1: when Update overwrites the acquired slot's constant buffers and when
\* Draw resets its command allocator, the slot was never submitted or the
\* fence has reached the slot's Fence, and the device is not executing a
\* command list of that slot.
C1_NoReuseBeforeRetired ==
    pc \in {"UpdateCBs", "Draw"} =>
        /\ CurrSlot.Fence = 0 \/ fenceCompleted >= CurrSlot.Fence
        /\ ~Executing(mCurrFrameResource)

C1_Witness == pc = "Draw" /\ waited /\ CurrSlot.Fence # 0

\* C2 (as claimed): a counter set to N before frame F and not set again
\* goes down by one in each of the N frames F..F+N-1, with one CopyData in
\* each, and after frame F+N-1 every slot holds the entity's record.
C2_DirtyConvergence ==
    pc \in InFrames =>
        /\ \A e \in 1 .. Len(mAllRitems) :
              LET since == FramesDone - MarkedAt("ritem", e)
              IN  /\ mAllRitems[e].NumFramesDirty =
                        Max(0, gNumFrameResources - since)
                  /\ since >= gNumFrameResources =>
                        \A s \in Slots :
                           mFrameResources[s].ObjectCB[mAllRitems[e].ObjCBIndex]
                              = ObjectConstantsOf(mAllRitems[e])
        /\ \A n \in DOMAIN mMaterials :
              LET since == FramesDone - MarkedAt("material", n)
              IN  /\ mMaterials[n].NumFramesDirty =
                        Max(0, gNumFrameResources - since)
                  /\ since >= gNumFrameResources =>
                        \A s \in Slots :
                           mFrameResources[s].MaterialCB[mMaterials[n].MatCBIndex]
                              = MaterialConstantsOf(n, mMaterials[n])

\* C3: the submitted frames whose fence value the device has not reached
\* are never more than gNumFrameResources.
C3_RingBound == Cardinality(InFlight) <= gNumFrameResources

C3_Witness == Cardinality(InFlight) = gNumFrameResources

\* C4: Update goes on without blocking exactly when the selected slot's
\* Fence is 0 or the fence has already reached it; otherwise it blocks,
\* resumes only with the fence at or past that value, and can resume as
\* soon as the fence is there.  (A step to "Destructor" is the application
\* leaving the loop, not Update going on.)
C4_BlockingExact ==
    /\ [][/\ (pc = "Update" /\ pc' \notin {"Update", "Destructor"}) =>
               LET f == mFrameResources[mCurrFrameResource'].Fence
               IN  /\ pc' \in {"UpdateWait", "UpdateCBs"}
                   /\ (pc' = "UpdateCBs") <=> (f = 0 \/ fenceCompleted >= f)
          /\ (pc = "UpdateWait" /\ pc' \notin {"UpdateWait", "Destructor"}) =>
               /\ pc' = "UpdateCBs"
               /\ fenceCompleted >= CurrSlot.Fence]_vars
    /\ [](pc = "UpdateWait" /\ fenceCompleted >= CurrSlot.Fence
             => ENABLED UpdateWait)

C4_Witness == pc = "UpdateCBs" /\ waited /\ fenceCompleted = CurrSlot.Fence

\* C5 (as claimed): once BuildRenderItems is done, no two render items of
\* mAllRitems have the same ObjCBIndex.
C5_DistinctObjCBIndex ==
    pc \in {"BuildFrameResources", "InitializeFlush"} \cup InFrames =>
        \A a, b \in 1 .. Len(mAllRitems) :
            a # b => mAllRitems[a].ObjCBIndex # mAllRitems[b].ObjCBIndex

\* C6: when BuildFrameResources sizes the buffers, and from then on, every
\* ObjCBIndex is below mAllRitems.size() and every MatCBIndex below
\* mMaterials.size(), and every slot's buffers have an element for each.
C6_IndicesInRange ==
    /\ pc \in {"BuildFrameResources", "InitializeFlush"} =>
          /\ \A e \in 1 .. Len(mAllRitems) :
                mAllRitems[e].ObjCBIndex \in 0 .. Len(mAllRitems) - 1
          /\ \A n \in DOMAIN mMaterials :
                mMaterials[n].MatCBIndex \in 0 .. Cardinality(DOMAIN mMaterials) - 1
    /\ pc = "InitializeFlush" =>
          \A s \in Slots :
             /\ \A e \in 1 .. Len(mAllRitems) :
                   mAllRitems[e].ObjCBIndex \in DOMAIN mFrameResources[s].ObjectCB
             /\ \A n \in DOMAIN mMaterials :
                   mMaterials[n].MatCBIndex \in DOMAIN mFrameResources[s].MaterialCB
             /\ 0 \in DOMAIN mFrameResources[s].PassCB

C6_Witness ==
    /\ pc = "InitializeFlush"
    /\ variant = "Lab5"
    /\ Len(mAllRitems) = BorderFirstIndex + 4 * steps + 2 * steps * steps + 1

\* C7: every NumFramesDirty stays within 0..gNumFrameResources, and a frame
\* lowers it by exactly 1 when it is positive and leaves it at 0 otherwise.
C7_CounterRange ==
    /\ [](/\ \A e \in 1 .. Len(mAllRitems) :
                mAllRitems[e].NumFramesDirty \in 0 .. gNumFrameResources
          /\ \A n \in DOMAIN mMaterials :
                mMaterials[n].NumFramesDirty \in 0 .. gNumFrameResources)
    /\ [][RefreshStep =>
            /\ \A e \in 1 .. Len(mAllRitems) :
                  mAllRitems'[e].NumFramesDirty =
                     Max(0, mAllRitems[e].NumFramesDirty - 1)
            /\ \A n \in DOMAIN mMaterials :
                  mMaterials'[n].NumFramesDirty =
                     Max(0, mMaterials[n].NumFramesDirty - 1)]_vars

C7_Witness ==
    /\ pc = "Draw"
    /\ \E e \in 1 .. Len(mAllRitems) : mAllRitems[e].NumFramesDirty = 0
    /\ \E e \in 1 .. Len(mAllRitems) :
          mAllRitems[e].NumFramesDirty = gNumFrameResources - 1

C9_FirstFrameSlotZero ==
    pc = "Draw" => mCurrFrameResourceIndex = (FramesDone - 1) % gNumFrameResources

\* the last render item of the latest Update that copied into element i
LastCopier(i) ==
    Last({k \in 1 .. Len(copyLog.objects) :
            mAllRitems[copyLog.objects[k]].ObjCBIndex = i})

\* C9 (amended): the first frame uses slot 1, where it copies the record of
\* every render item (an element holds the record copied last) and leaves
\* the counters at 2; the second frame uses slot 2, the third slot 0 and
\* the fourth slot 1.
C9_FirstFrameSlotOne ==
    pc = "Draw" =>
        /\ mCurrFrameResourceIndex = FramesDone % gNumFrameResources
        /\ mCurrFrameResource = mCurrFrameResourceIndex
        /\ FramesDone = 1 =>
              /\ mCurrFrameResourceIndex = 1
              /\ copyLog.objects = [k \in 1 .. Len(mAllRitems) |-> k]
              /\ \A e \in 1 .. Len(mAllRitems) :
                    /\ mAllRitems[e].NumFramesDirty = gNumFrameResources - 1
                    /\ copyLog.objects[LastCopier(mAllRitems[e].ObjCBIndex)] = e =>
                          CurrSlot.ObjectCB[mAllRitems[e].ObjCBIndex]
                             = ObjectConstantsOf(mAllRitems[e])

C9_Witness == pc = "Draw" /\ FramesDone = 4 /\ mCurrFrameResourceIndex = 1

Awaited ==
    IF pc = "UpdateWait" THEN CurrSlot.Fence ELSE mCurrentFence

SignalQueued(value) ==
    \E i \in 1 .. Len(cmdQueue) :
        cmdQueue[i].op = "signal" /\ cmdQueue[i].value >= value

\* C11: with a device that keeps retiring what is queued, every fence wait
\* of Update (and the destructor's) ends, the loop goes on rendering frames
\* up to the frame bound unless the application exits, and the thread is
\* never stuck: it can step, or it has exited, or it waits for a fence value
\* whose signal is queued.
C11_NoDeadlock ==
    /\ (pc = "UpdateWait") ~> (pc # "UpdateWait")
    /\ (pc = "FlushWait") ~> (pc = "Exit")
    /\ <>(pc = "Exit" \/ (pc = "Update" /\ mCurrentFence = MaxFence))
    /\ [](\/ pc = "Exit"
          \/ pc = "Update" /\ mCurrentFence = MaxFence
          \/ ENABLED FrameStep
          \/ pc \in {"UpdateWait", "FlushWait"} /\ SignalQueued(Awaited))

C11_Witness ==
    pc = "Update" /\ mCurrentFence = MaxFence /\ waited /\ ~thrown

\* C12: Update does not block when at most gNumFrameResources - 1 submitted
\* frames are unretired at the time the slot is selected; when it blocks,
\* the frame submitted gNumFrameResources frames earlier, which is the
\* previous use of the selected slot, has not been retired.
C12_TwoFramesAhead ==
    [][(pc = "Update" /\ pc' \in {"UpdateWait", "UpdateCBs"}) =>
          LET n == Len(submitted)
              earlier == n - gNumFrameResources + 1
          IN  /\ Cardinality(InFlight) <= gNumFrameResources - 1
                    => pc' = "UpdateCBs"
              /\ pc' = "UpdateWait" =>
                    /\ earlier >= 1
                    /\ submitted[earlier] = mFrameResources[mCurrFrameResource'].Fence
                    /\ submitted[earlier] > fenceCompleted]_vars

C12_Witness ==
    pc = "UpdateCBs" /\ ~waited /\ Cardinality(InFlight) = gNumFrameResources - 1

\* C13: the fence values that successive Draw calls store on slots are
\* strictly increasing in submission order, and the slot submitted last
\* (the current slot when Draw has returned) holds the largest Fence of all
\* slots, which no other slot holds.
C13_FencesIncrease ==
    /\ \A i, j \in 1 .. Len(submitted) :
          i < j => submitted[i] < submitted[j]
    /\ submitted # <<>> =>
          LET last == submitted[Len(submitted)]
          IN  /\ \A s \in Slots : mFrameResources[s].Fence <= last
              /\ Cardinality({s \in Slots : mFrameResources[s].Fence = last}) = 1
              /\ pc = "Update" => CurrSlot.Fence = last

C13_Witness ==
    pc = "Update" /\ Len(submitted) = gNumFrameResources + 1

IsPrefix(a, b) ==
    /\ Len(a) <= Len(b)
    /\ \A i \in 1 .. Len(a) : a[i] = b[i]

\* the steps of a frame in the order claimed, with or without the wait
FrameOrder(wait) ==
    <<"acquire">> \o (IF wait THEN <<"wait">> ELSE <<>>) \o
    <<"objectCBs", "materialCBs", "passCB", "resetAllocator", "record",
      "execute", "present", "storeFence", "signal">>

\* C14: the steps of every frame come in the order slot selection, fence
\* wait (if needed), constant-buffer refreshes, command recording,
\* ExecuteCommandLists, fence advance and Signal; on the queue the Signal of
\* a fence value stored on a slot comes after the execution of that slot's
\* command list.
C14_StepOrder ==
    /\ \E wait \in BOOLEAN : IsPrefix(frameLog, FrameOrder(wait))
    /\ \A i, j \in 1 .. Len(cmdQueue) :
          \A s \in DOMAIN mFrameResources :
             (/\ cmdQueue[i].op = "signal"
              /\ cmdQueue[i].value = mFrameResources[s].Fence
              /\ cmdQueue[j].op = "execute"
              /\ cmdQueue[j].slot = s) => j < i

C14_Witness ==
    pc = "Update" /\ frameLog = FrameOrder(TRUE) /\ Len(cmdQueue) >= 2

Refreshes == {"objectCBs", "materialCBs", "passCB"}

Before(a, b) ==
    \A j \in 1 .. Len(frameLog) :
       frameLog[j] = b => \E i \in 1 .. j - 1 : frameLog[i] = a

\* C15 (as stated): in every frame the allocator of the acquired slot is
\* reset before any object, material or pass constant is refreshed for
\* that slot.
C15_ResetBeforeRefresh ==
    \A r \in Refreshes : Before("resetAllocator", r)

\* C15 (amended): in every frame the allocator of the acquired slot is
\* reset after the slot was acquired and its object, material and pass
\* constants were refreshed, and before any command of the frame is
\* recorded.
C15_ResetAfterRefresh ==
    /\ \A r \in Refreshes \cup {"acquire"} : Before(r, "resetAllocator")
    /\ Before("resetAllocator", "record")
    /\ \A r \in Refreshes :
          \A i, j \in 1 .. Len(frameLog) :
             (frameLog[i] = r /\ frameLog[j] = "resetAllocator") => i < j

C15_Witness ==
    pc = "Update" /\ frameLog = FrameOrder(FALSE) /\ Len(submitted) = 1

\* C16: every Update makes exactly one CopyData of the pass constants, into
\* element 0 of the pass buffer of the acquired slot, whatever the dirty
\* counters are, and writes the pass buffer of no other slot; no other
\* step of a frame writes a pass buffer.
C16_PassCBEveryFrame ==
    [][/\ RefreshStep =>
             LET cur == mCurrFrameResource
             IN  /\ copyLog'.pass = <<0>>
                 /\ mFrameResources'[cur].PassCB[0] = mMainPassCB'
                 /\ \A s \in DOMAIN mFrameResources \ {cur} :
                       mFrameResources'[s].PassCB = mFrameResources[s].PassCB
       /\ (pc \in InFrames /\ ~RefreshStep) =>
             \A s \in DOMAIN mFrameResources :
                mFrameResources'[s].PassCB = mFrameResources[s].PassCB]_vars

C16_Witness ==
    /\ pc = "Draw"
    /\ copyLog.objects = <<>>
    /\ copyLog.materials = <<>>
    /\ copyLog.pass = <<0>>
    /\ \A k \in 1 .. Len(mAllRitems) : mAllRitems[k].NumFramesDirty = 0
    /\ CurrSlot.PassCB[0] = mMainPassCB

\* C17: when the application object is destroyed with a valid device, the
\* FlushCommandQueue of the destructor returns only after the fence has
\* reached a value at least equal to the Fence of every slot: every slot is
\* retired, and the queue is empty, before the frame resources are released.
C17_DrainedAtExit ==
    (pc = "Exit" /\ md3dDevice # "null") =>
       /\ \A s \in DOMAIN mFrameResources :
             mFrameResources[s].Fence <= fenceCompleted
       /\ InFlight = {}
       /\ cmdQueue = <<>>

C17_Witness ==
    /\ pc = "Exit"
    /\ md3dDevice # "null"
    /\ Len(submitted) >= gNumFrameResources
    /\ \A s \in DOMAIN mFrameResources : mFrameResources[s].Fence > 0

\* BuildMaterials and BuildRenderItems have returned
Built == pc \notin {"Initialize", "BuildMaterials", "BuildRenderItems", "MazeLoop"}

\* C18: once BuildMaterials and BuildRenderItems have completed, no step
\* (Update, Draw, AnimateMaterials, a modification of a render item, a
\* failure, the destructor) changes the ObjCBIndex of a render item or the
\* MatCBIndex of a material, nor adds or removes one.
C18_IndexStability ==
    [][Built =>
          /\ Len(mAllRitems') = Len(mAllRitems)
          /\ \A k \in 1 .. Len(mAllRitems) :
                mAllRitems'[k].ObjCBIndex = mAllRitems[k].ObjCBIndex
          /\ DOMAIN mMaterials' = DOMAIN mMaterials
          /\ \A n \in DOMAIN mMaterials :
                mMaterials'[n].MatCBIndex = mMaterials[n].MatCBIndex]_vars

C18_Witness ==
    /\ pc = "Draw"
    /\ Len(submitted) >= 1
    /\ \E i \in 1 .. Len(modLog) : modLog[i].kind = "ritem"
    /\ \E k \in 1 .. Len(mAllRitems) :
          mAllRitems[k].NumFramesDirty = gNumFrameResources - 1

\* the number of CopyData calls the latest UpdateMaterialCBs made for n
MaterialCopyCount(log, n) ==
    Cardinality({i \in 1 .. Len(log) : log[i] = n})

Users(n) == {k \in 1 .. Len(mAllRitems) : mAllRitems[k].Mat = n}

\* C19: in a frame a material is refreshed at most once, by one CopyData at
\* its MatCBIndex, exactly when its NumFramesDirty is positive, and the
\* counter then decreases by exactly 1, however many render items use the
\* material; no other step of a frame decreases the counter.
C19_SharedMaterialOnce ==
    [][/\ RefreshStep =>
             \A n \in DOMAIN mMaterials :
                LET mat == mMaterials[n]
                    copies == MaterialCopyCount(copyLog'.materials, n)
                IN  /\ copies = IF mat.NumFramesDirty > 0 THEN 1 ELSE 0
                    /\ copies = 1 =>
                          mFrameResources'[mCurrFrameResource]
                             .MaterialCB[mat.MatCBIndex] =
                                MaterialConstantsOf(n, mat)
                    /\ mMaterials'[n].NumFramesDirty =
                          IF mat.NumFramesDirty > 0
                          THEN mat.NumFramesDirty - 1 ELSE 0
       /\ (pc \in InFrames /\ ~RefreshStep) =>
             \A n \in DOMAIN mMaterials :
                mMaterials'[n].NumFramesDirty >= mMaterials[n].NumFramesDirty]_vars

C19_Witness ==
    /\ pc = "Draw"
    /\ \E n \in DOMAIN mMaterials :
          /\ Cardinality(Users(n)) >= 2
          /\ MaterialCopyCount(copyLog.materials, n) = 1
          /\ mMaterials[n].NumFramesDirty = gNumFrameResources - 2

\* the command lists on the queue
Executions(queue) ==
    {i \in 1 .. Len(queue) : queue[i].op = "execute"}

\* C20: a failure of a call checked by ThrowIfFailed in Initialize, Update
\* or Draw is not retried: the exception leaves the frame loop for the
\* destructor and the exit of WinMain, and from then on no frame is
\* updated, recorded or submitted and no constant buffer is written.
C20_NoRetryAfterFailure ==
    [][/\ thrown' => pc' \in {"Destructor", "FlushWait", "Exit"}
       /\ thrown =>
             /\ thrown'
             /\ submitted' = submitted
             /\ copyLog' = copyLog
             /\ frameLog' = frameLog
             /\ mFrameResources' = mFrameResources
             /\ mCurrFrameResourceIndex' = mCurrFrameResourceIndex
             /\ mAllRitems' = mAllRitems
             /\ mMaterials' = mMaterials
             /\ Cardinality(Executions(cmdQueue')) <=
                   Cardinality(Executions(cmdQueue))]_vars

C20_Witness ==
    pc = "Exit" /\ thrown /\ Len(submitted) >= 1 /\ md3dDevice # "null"

\* the thread is in the fence wait of Update and the fence has not reached
\* the Fence of the selected slot
Blocked == pc = "UpdateWait" /\ fenceCompleted < CurrSlot.Fence

FrameUntouched ==
    /\ mFrameResources' = mFrameResources
    /\ mAllRitems' = mAllRitems
    /\ mMaterials' = mMaterials
    /\ copyLog' = copyLog
    /\ submitted' = submitted
    /\ mCurrentFence' = mCurrentFence
    /\ mCurrFrameResourceIndex' = mCurrFrameResourceIndex

\* C21 (as stated): the fence wait of Update has no timeout and no error
\* outcome; while the fence has not reached the Fence of the selected slot
\* the thread stays in the wait, no later step of the frame runs and no
\* error state is entered.
C21_WaitNoErrorOutcome ==
    [][Blocked => pc' = "UpdateWait" /\ ~thrown' /\ FrameUntouched]_vars

\* C21 (amended): the fence wait of Update has no timeout; while the fence
\* has not reached the Fence of the selected slot no later step of the
\* frame runs, and the thread leaves the wait only by the exception of a
\* failed SetEventOnCompletion, which ends the frame loop.
C21_WaitNoTimeout ==
    [][Blocked =>
          /\ FrameUntouched
          /\ \/ pc' = "UpdateWait" /\ ~thrown'
             \/ pc' = "Destructor" /\ thrown']_vars

C21_Witness ==
    /\ Blocked
    /\ ~thrown
    /\ cmdQueue # <<>>
    /\ Head(cmdQueue).op = "signal"

\* the slots with which a command list was given to ExecuteCommandLists
UsedSlots == {executed[i] : i \in 1 .. Len(executed)}

C23_RenderedWithOwnConstants ==
    [][(pc = "Draw" /\ Len(executed') > Len(executed)) =>
          \A e \in 1 .. Len(mAllRitems) :
             LET item == mAllRitems[e]
                 mat == mMaterials[item.Mat]
             IN  /\ CurrSlot.ObjectCB[item.ObjCBIndex] = ObjectConstantsOf(item)
                 /\ CurrSlot.MaterialCB[mat.MatCBIndex] =
                       MaterialConstantsOf(item.Mat, mat)]_vars

\* the step of Update that advances the cursor and selects the slot
AcquireStep == pc = "Update" /\ pc' \in {"UpdateWait", "UpdateCBs"}

\* C24: mCurrFrameResourceIndex is always in 0 .. gNumFrameResources - 1
\* and advances by exactly one modulo gNumFrameResources in every Update
\* and in no other step; any gNumFrameResources consecutive frames use
\* pairwise different slots; and from the first Update on mCurrFrameResource
\* is the slot at mCurrFrameResourceIndex.
C24_CursorAdvancesByOne ==
    /\ [](/\ mCurrFrameResourceIndex \in 0 .. gNumFrameResources - 1
          /\ mCurrFrameResource # NullPtr =>
                mCurrFrameResource = mCurrFrameResourceIndex
          /\ (pc \in InFrames /\ pc # "Update") => mCurrFrameResource # NullPtr
          /\ executed # <<>> => mCurrFrameResource # NullPtr
          /\ \A i, j \in 1 .. Len(executed) :
                (i < j /\ j < i + gNumFrameResources) => executed[i] # executed[j])
    /\ [][IF AcquireStep
          THEN mCurrFrameResourceIndex' =
                  (mCurrFrameResourceIndex + 1) % gNumFrameResources
          ELSE mCurrFrameResourceIndex' = mCurrFrameResourceIndex]_vars

C24_Witness ==
    /\ pc = "Draw"
    /\ Len(executed) = gNumFrameResources
    /\ mCurrFrameResourceIndex = executed[1]

\* the step is a modification that marks an entity
MarkStep == Len(modLog') = Len(modLog) + 1

\* C25 (as claimed): marking an entity sets its counter to exactly
\* gNumFrameResources, whatever the counter was; and once
\* gNumFrameResources frames have been refreshed after the last mark of an
\* entity, every slot holds the entity's latest record.
C25_MarkSetsCounter ==
    /\ [][MarkStep =>
             LET mark == modLog'[Len(modLog')]
             IN  IF mark.kind = "ritem"
                 THEN mAllRitems'[mark.id].NumFramesDirty = gNumFrameResources
                 ELSE mMaterials'[mark.id].NumFramesDirty = gNumFrameResources]_vars
    /\ [](pc = "Draw" =>
            /\ \A e \in 1 .. Len(mAllRitems) :
                  FramesDone - MarkedAt("ritem", e) >= gNumFrameResources =>
                     \A s \in Slots :
                        mFrameResources[s].ObjectCB[mAllRitems[e].ObjCBIndex]
                           = ObjectConstantsOf(mAllRitems[e])
            /\ \A n \in DOMAIN mMaterials :
                  FramesDone - MarkedAt("material", n) >= gNumFrameResources =>
                     \A s \in Slots :
                        mFrameResources[s].MaterialCB[mMaterials[n].MatCBIndex]
                           = MaterialConstantsOf(n, mMaterials[n]))

\* C26: a frame changes only the acquired slot: no step of Update or Draw
\* changes the Fence or the object, material or pass buffer of a slot other
\* than the current one, and no step outside Update and Draw changes a
\* slot at all.
C26_OtherSlotsUntouched ==
    [][mFrameResources # <<>> =>
          /\ \A s \in DOMAIN mFrameResources \ {mCurrFrameResource'} :
                mFrameResources'[s] = mFrameResources[s]
          /\ mFrameResources' # mFrameResources =>
                pc \in {"UpdateCBs", "Draw"}]_vars

C26_Witness ==
    /\ pc = "Update"
    /\ Len(executed) = 2
    /\ mFrameResources[1].Fence # 0
    /\ mFrameResources[2].Fence > mFrameResources[1].Fence
    /\ mFrameResources[0].Fence = 0
    /\ mFrameResources[0].PassCB[0] = Unwritten
    /\ mFrameResources[1].PassCB[0] # mFrameResources[2].PassCB[0]

\* the device works through its queue in order: the i-th command list
\* given to ExecuteCommandLists has finished when it is no more on the queue
Finished(i) == i <= Len(executed) - Cardinality(Executions(cmdQueue))

DrawStep == pc = "Draw" /\ pc' = "Update"

\* C27: Draw increments mCurrentFence once, by 1, stores the new value in
\* the Fence of the current slot and passes the same value to Signal, after
\* the slot's command list on the queue; the Fence of a slot is the value
\* stored with a list submitted with that slot, and when the fence has
\* reached the value stored with a list, the list has finished executing.
C27_StoredIsSignalled ==
    /\ [][DrawStep =>
             /\ mCurrentFence' = mCurrentFence + 1
             /\ mFrameResources'[mCurrFrameResource].Fence = mCurrentFence'
             /\ Len(cmdQueue') = Len(cmdQueue) + 2
             /\ cmdQueue'[Len(cmdQueue') - 1] =
                   [op |-> "execute", slot |-> mCurrFrameResource]
             /\ cmdQueue'[Len(cmdQueue')] =
                   [op |-> "signal", value |-> mCurrentFence']]_vars
    /\ [](/\ \A i \in 1 .. Len(submitted) :
                fenceCompleted >= submitted[i] => Finished(i)
          /\ \A s \in DOMAIN mFrameResources :
                mFrameResources[s].Fence # 0 =>
                   \E i \in 1 .. Len(submitted) :
                      /\ submitted[i] = mFrameResources[s].Fence
                      /\ executed[i] = s)

C27_Witness ==
    /\ pc = "Update"
    /\ Len(submitted) = 2
    /\ fenceCompleted = submitted[1]
    /\ Cardinality(Executions(cmdQueue)) = 1

MatCBIndices == {mMaterials[n].MatCBIndex : n \in DOMAIN mMaterials}

\* C28: once BuildMaterials has run, in either application the materials
\* registered in mMaterials have pairwise different MatCBIndex values, and
\* these are exactly 0 .. mMaterials.size() - 1.
C28_DistinctMatCBIndex ==
    pc \notin {"Initialize", "BuildMaterials"} =>
       /\ \A a, b \in DOMAIN mMaterials :
             a # b => mMaterials[a].MatCBIndex # mMaterials[b].MatCBIndex
       /\ MatCBIndices = 0 .. Cardinality(DOMAIN mMaterials) - 1

C28_Witness ==
    /\ pc = "BuildFrameResources"
    /\ variant = "Lab5"
    /\ Cardinality(DOMAIN mMaterials) = 5
    /\ mMaterials["treeSprites"].MatCBIndex = 4

\* C29: Draw makes no fence check of its own.  Draw runs only right after
\* the refreshes of an Update; the slot whose allocator it resets and whose
\* Fence it overwrites is the one that Update selected, never a null one,
\* and that Update has found it never submitted or retired.
C29_DrawUsesAcquiredSlot ==
    /\ [](pc = "Draw" =>
            /\ mCurrFrameResource # NullPtr
            /\ mCurrFrameResource = mCurrFrameResourceIndex
            /\ IsPrefix(<<"acquire">>, frameLog)
            /\ frameLog[Len(frameLog)] = "passCB")
    /\ [][/\ (pc # "Draw" /\ pc' = "Draw") => pc = "UpdateCBs"
          /\ pc \in {"UpdateWait", "UpdateCBs", "Draw"} =>
                mCurrFrameResource' = mCurrFrameResource
          /\ Len(executed') > Len(executed) =>
                /\ pc = "Draw"
                /\ executed' = Append(executed, mCurrFrameResource)
                /\ \/ CurrSlot.Fence = 0
                   \/ fenceCompleted >= CurrSlot.Fence
          /\ DrawStep =>
                \A s \in DOMAIN mFrameResources :
                   mFrameResources'[s].Fence # mFrameResources[s].Fence =>
                      s = mCurrFrameResource]_vars

C29_Witness ==
    /\ pc = "Update"
    /\ waited
    /\ Len(executed) = gNumFrameResources + 1
    /\ executed[Len(executed)] = executed[1]
    /\ mCurrFrameResource = executed[1]

====
